---- MODULE Spec2Model ----
(***************************************************************************)
(* Cloudwatcher Solo INDI driver: the payload decoder (CloudwatcherData)   *)
(* and the driver object (CloudwatcherSolo) that fetches, decodes and      *)
(* republishes the readings.                                               *)
(*                                                                         *)
(* Doubles are modelled in tenths as integers; NAN is a value outside the  *)
(* range of every reading.  A payload is a sequence of lines, one per      *)
(* std::getline; a line is the text before the '=' (key) and the text     *)
(* after it (val).                                                         *)
(***************************************************************************)
EXTENDS Integers, Sequences, FiniteSets, TLC

VARIABLES
    data,        \* decoder run: the std::string handed to the constructor
    result,      \* decoder run: outcome of the constructor
    address,     \* addressTP[0].getText()
    inited,      \* initProperties has run
    connected,   \* the framework's isConnected()
    crashed,     \* the process died on the null dereference
    m_lastData,  \* <<>> for nullptr, <<d>> for a held CloudwatcherData
    RawT,        \* RawT[DATE], RawT[CWINFO] texts
    RawN,        \* RawN[...] values
    RawTPs,      \* RawTP.s
    RawNPs,      \* RawNP.s
    ParametersN, \* registered weather parameters: name -> value
    critical,    \* names handed to setCriticalParameter
    last         \* what the last operation did and returned

vars == <<data, result, address, inited, connected, crashed, m_lastData,
          RawT, RawN, RawTPs, RawNPs, ParametersN, critical, last>>

----------------------------------------------------------------------------
(* Bounds *)

MaxExtra == 2
MaxMissing == 1

\* The element of a one-element set.  Only({e(x) : x \in {v}}) is e with x
\* naming the value of v.
Only(S) == CHOOSE x \in S : TRUE

----------------------------------------------------------------------------
(* cw.h *)

NAN == 999999

CLOSED == 0
OPEN == 1

\* IEEE-754 comparison of two doubles with ==: false whenever an operand is NAN
FloatEq(a, b) == a # NAN /\ b # NAN /\ a = b

\* ... and with !=
FloatNe(a, b) == ~FloatEq(a, b)

\* The member initialisers of CloudwatcherData
DefaultData ==
    [date |-> "", cwinfo |-> "", sw |-> CLOSED, safe |-> FALSE,
     clouds |-> NAN, temp |-> NAN, lightmpsas |-> NAN, rawir |-> NAN,
     wind |-> NAN, gust |-> NAN, rain |-> NAN, hum |-> NAN, dewp |-> NAN,
     abspress |-> NAN, relpress |-> NAN]

----------------------------------------------------------------------------
(* sscanf conversions.  Each returns <<>> when the conversion fails and     *)
(* <<v>> when it stores v.                                                  *)

\* %lf on the texts of the model, in tenths
LfText == ("0" :> 0) @@ ("1" :> 10) @@ ("2" :> 20) @@ ("-1" :> -10) @@ ("2.5" :> 25)

\* %d on the texts of the model: the leading integer
DText == ("0" :> 0) @@ ("1" :> 1) @@ ("2" :> 2) @@ ("-1" :> -1) @@ ("2.5" :> 2)

\* %[^\n] stores at least one character
ScanStr(val) == IF val = "" THEN <<>> ELSE <<val>>

\* A faulty ScanLf: the double is read with the integer conversion
ScanLfAsInt(val) == IF val \in DOMAIN DText THEN <<DText[val] * 10>> ELSE <<>>

ScanLf(val) == IF val \in DOMAIN LfText THEN <<LfText[val]>> ELSE <<>>

ScanD(val) == IF val \in DOMAIN DText THEN <<DText[val]>> ELSE <<>>

\* The conversion of a format on the text that follows the '='
Scan(conv, val) ==
    IF conv = "%[" THEN ScanStr(val)
    ELSE IF conv = "%lf" THEN ScanLf(val)
    ELSE ScanD(val)

\* sscanf(str, "<key>=<conv>", &v): <<v>> when it returns 1
Sscanf(line, key, conv) == IF line.key = key THEN Scan(conv, line.val) ELSE <<>>

----------------------------------------------------------------------------
(* CloudwatcherData::CloudwatcherData *)

\* What static_cast<SwitchState>(valInt) may yield.  SwitchState has no fixed
\* underlying type and its values are 0..1; the conversion of another value
\* is undefined: a build keeps the integer, or keeps only the bit of the
\* enumeration's range.
EnumCasts == {"unchanged", "truncated"}

StaticCastSwitch(valInt, cast) ==
    IF valInt \in {CLOSED, OPEN} THEN valInt
    ELSE IF cast = "unchanged" THEN valInt
    ELSE valInt % 2

\* One pass of the while loop: st is [d, warns, cast]
ProcessLine(st, line) ==
    LET d == st.d
        Upd(nd) == [st EXCEPT !.d = nd]
    IN
    IF Sscanf(line, "dataGMTTime", "%[") # <<>> THEN
        Upd([d EXCEPT !.date = Sscanf(line, "dataGMTTime", "%[")[1]])
    ELSE IF Sscanf(line, "cwinfo", "%[") # <<>> THEN
        Upd([d EXCEPT !.cwinfo = Sscanf(line, "cwinfo", "%[")[1]])
    ELSE IF Sscanf(line, "clouds", "%lf") # <<>> THEN
        Upd([d EXCEPT !.clouds = Sscanf(line, "clouds", "%lf")[1]])
    ELSE IF Sscanf(line, "temp", "%lf") # <<>> THEN
        Upd([d EXCEPT !.temp = Sscanf(line, "temp", "%lf")[1]])
    ELSE IF Sscanf(line, "wind", "%lf") # <<>> THEN
        Upd([d EXCEPT !.wind = Sscanf(line, "wind", "%lf")[1]])
    ELSE IF Sscanf(line, "gust", "%lf") # <<>> THEN
        Upd([d EXCEPT !.gust = Sscanf(line, "gust", "%lf")[1]])
    ELSE IF Sscanf(line, "rain", "%lf") # <<>> THEN
        Upd([d EXCEPT !.rain = Sscanf(line, "rain", "%lf")[1]])
    ELSE IF Sscanf(line, "lightmpsas", "%lf") # <<>> THEN
        Upd([d EXCEPT !.lightmpsas = Sscanf(line, "lightmpsas", "%lf")[1]])
    ELSE IF Sscanf(line, "switch", "%d") # <<>> THEN
        Upd([d EXCEPT !.sw = StaticCastSwitch(Sscanf(line, "switch", "%d")[1], st.cast)])
    ELSE IF Sscanf(line, "safe", "%d") # <<>> THEN
        Upd([d EXCEPT !.safe = (Sscanf(line, "safe", "%d")[1] # 0)])
    ELSE IF Sscanf(line, "hum", "%lf") # <<>> THEN
        Upd([d EXCEPT !.hum = Sscanf(line, "hum", "%lf")[1]])
    ELSE IF Sscanf(line, "dewp", "%lf") # <<>> THEN
        Upd([d EXCEPT !.dewp = Sscanf(line, "dewp", "%lf")[1]])
    ELSE IF Sscanf(line, "rawir", "%lf") # <<>> THEN
        Upd([d EXCEPT !.rawir = Sscanf(line, "rawir", "%lf")[1]])
    ELSE IF Sscanf(line, "abspress", "%lf") # <<>> THEN
        Upd([d EXCEPT !.abspress = Sscanf(line, "abspress", "%lf")[1]])
    ELSE IF Sscanf(line, "relpress", "%lf") # <<>> THEN
        Upd([d EXCEPT !.relpress = Sscanf(line, "relpress", "%lf")[1]])
    ELSE [st EXCEPT !.warns = @ + 1]

\* A faulty ReadLines: the lines are taken from the last to the first, so
\* that the first line of a key is the one that stays
RECURSIVE ReadLinesBackwards(_, _)
ReadLinesBackwards(st, lines) ==
    IF lines = <<>> THEN st
    ELSE Only({ProcessLine(later, Head(lines)) :
               later \in {ReadLinesBackwards(st, Tail(lines))}})

\* A faulty ReadLines: the loop ends at the first line that no pattern matches
RECURSIVE ReadLinesUntilUnknown(_, _)
ReadLinesUntilUnknown(st, lines) ==
    IF lines = <<>> THEN st
    ELSE Only({IF next.warns > st.warns THEN next
               ELSE ReadLinesUntilUnknown(next, Tail(lines)) :
               next \in {ProcessLine(st, Head(lines))}})

\* The while loop over the lines of the payload
RECURSIVE ReadLines(_, _)
ReadLines(st, lines) ==
    IF lines = <<>> THEN st
    ELSE Only({ReadLines(next, Tail(lines)) : next \in {ProcessLine(st, Head(lines))}})

\* A faulty RequiredCheck: cwinfo is tested before the date
RequiredCheckCwinfoFirst(d) ==
    IF d.cwinfo = "" THEN "cwinfo"
    ELSE IF d.date = "" THEN "date"
    ELSE IF FloatEq(d.clouds, NAN) THEN "clouds"
    ELSE IF FloatEq(d.lightmpsas, NAN) THEN "lightmpsas"
    ELSE IF FloatEq(d.temp, NAN) THEN "temp"
    ELSE ""

\* The checks after the loop: "" when none throws, else the field named by
\* the runtime_error
RequiredCheck(d) ==
    IF d.date = "" THEN "date"
    ELSE IF d.cwinfo = "" THEN "cwinfo"
    ELSE IF FloatEq(d.clouds, NAN) THEN "clouds"
    ELSE IF FloatEq(d.lightmpsas, NAN) THEN "lightmpsas"
    ELSE IF FloatEq(d.temp, NAN) THEN "temp"
    ELSE ""

\* The constructor: obj is <<d>> when it returns, <<>> when it throws
CloudwatcherData(payload, cast) ==
    Only({[done |-> TRUE,
           obj |-> IF RequiredCheck(st.d) = "" THEN <<st.d>> ELSE <<>>,
           err |-> RequiredCheck(st.d),
           warns |-> st.warns] :
          st \in {ReadLines([d |-> DefaultData, warns |-> 0, cast |-> cast], payload)}})

NoResult == [done |-> FALSE, obj |-> <<>>, err |-> "", warns |-> 0]

----------------------------------------------------------------------------
(* The payloads of the decoder runs: the required lines of any set of       *)
(* required keys, in the order of the device or reversed, with a run of up  *)
(* to MaxExtra further lines of one key inserted at any position.           *)

RequiredKeys == <<"dataGMTTime", "cwinfo", "clouds", "temp", "lightmpsas">>

FloatKeys == {"clouds", "temp", "wind", "gust", "rain", "lightmpsas", "hum",
              "dewp", "rawir", "abspress", "relpress"}

IntKeys == {"switch", "safe"}

StringKeys == {"dataGMTTime", "cwinfo"}

KnownKeys == StringKeys \cup FloatKeys \cup IntKeys

UnknownKeys == {"foo"}

\* The value texts tried for a key: well-formed ones and one that fails to convert
TextsOf(k) ==
    IF k \in StringKeys THEN {"a", "b", ""}
    ELSE IF k \in FloatKeys THEN {"1", "2.5", "x"}
    ELSE IF k \in IntKeys THEN {"0", "1", "2", "-1", "x"}
    ELSE {"1"}

Line(k, v) == [key |-> k, val |-> v]

LinesOf(k) == {Line(k, v) : v \in TextsOf(k)}

\* The line the base payload carries for a required key
BaseText == ("dataGMTTime" :> "a") @@ ("cwinfo" :> "b") @@ ("clouds" :> "-1")
            @@ ("temp" :> "1") @@ ("lightmpsas" :> "2.5")

Reverse(s) == [i \in 1..Len(s) |-> s[Len(s) + 1 - i]]

RECURSIVE SeqsUpTo(_, _)
SeqsUpTo(S, n) ==
    IF n = 0 THEN {<<>>}
    ELSE LET shorter == SeqsUpTo(S, n - 1)
         IN shorter \cup {Append(s, x) : s \in shorter, x \in S}

BaseLines(R, rev) ==
    LET order == IF rev THEN Reverse(RequiredKeys) ELSE RequiredKeys
        keys == SelectSeq(order, LAMBDA k : k \in R)
    IN [i \in 1..Len(keys) |-> Line(keys[i], BaseText[keys[i]])]

InsertAt(base, run, p) == SubSeq(base, 1, p) \o run \o SubSeq(base, p + 1, Len(base))

RequiredSet == {RequiredKeys[i] : i \in 1..Len(RequiredKeys)}

Payloads ==
    {InsertAt(BaseLines(R, rev), run, p) :
        <<R, rev, run, p>> \in
            {q \in (SUBSET RequiredSet) \X BOOLEAN
                   \X (UNION {SeqsUpTo(LinesOf(k), MaxExtra) : k \in KnownKeys \cup UnknownKeys})
                   \X (0..Len(RequiredKeys)) :
                q[4] <= Cardinality(q[1])}}

----------------------------------------------------------------------------
(* What the device at the configured address may answer to one fetch: the   *)
(* required lines with at most MaxMissing of them missing, followed by at   *)
(* most one more line.                                                      *)

DeviceRuns == {<<>>, <<Line("wind", "1")>>}

DeviceBodies ==
    {BaseLines(RequiredSet \ M, FALSE) \o run :
        M \in {X \in SUBSET RequiredSet : Cardinality(X) <= MaxMissing},
        run \in DeviceRuns}

\* One curl transfer: it fails, or it delivers a body
FetchOutcomes ==
    {[ok |-> FALSE, body |-> <<>>]} \cup {[ok |-> TRUE, body |-> b] : b \in DeviceBodies}

\* The decoder on each body the device may answer; these bodies carry no
\* switch line, so the outcome is the same for every cast
Decoded == [b \in DeviceBodies |-> Only({CloudwatcherData(b, c) : c \in EnumCasts})]

\* What reading through a null m_lastData may do: the process dies, or the
\* reads deliver the members of some object (here: of a default-initialised
\* one, or of the one decoded from the full base payload)
NullReadOutcomes ==
    {[crash |-> TRUE, d |-> DefaultData],
     [crash |-> FALSE, d |-> DefaultData],
     [crash |-> FALSE, d |-> Decoded[BaseLines(RequiredSet, FALSE)].obj[1]]}

----------------------------------------------------------------------------
(* The state after the construction of the driver object (cw.h) *)

IPStates == <<"IDLE", "OK", "BUSY", "ALERT">>

\* The numeric value of an IPState, as `!updateWeather()` tests it
IPSValue(st) == (CHOOSE i \in 1..Len(IPStates) : IPStates[i] = st) - 1

AlwaysOn == {"WEATHER_SAFE", "WEATHER_SWITCH", "WEATHER_SKYTEMP", "WEATHER_TEMP",
             "WEATHER_SKY_QUALITY"}

Optional == {"WEATHER_WIND", "WEATHER_GUST", "WEATHER_RAIN", "WEATHER_HUMIDITY",
             "WEATHER_DEWPOINT", "WEATHER_ABSPRESS", "WEATHER_RELPRESS"}

AllParameters == AlwaysOn \cup Optional

\* IUFillNumber(..., NAN) for each of the 13 raw numbers
RawNFill ==
    [clouds |-> NAN, temp |-> NAN, wind |-> NAN, gust |-> NAN, rain |-> NAN,
     lightmpsas |-> NAN, sw |-> NAN, safe |-> NAN, hum |-> NAN, dewp |-> NAN,
     rawir |-> NAN, abspress |-> NAN, relpress |-> NAN]

RawTFill == [date |-> "n/a", cwinfo |-> "n/a"]

NoLast == [op |-> "none", ret |-> "none", fetches |-> <<>>, nullRead |-> FALSE,
           unregistered |-> {}, busy |-> FALSE, raw |-> <<>>]

\* RawT and RawN are not read before initProperties fills them
DriverInit ==
    /\ address = <<>>
    /\ inited = FALSE
    /\ connected = FALSE
    /\ crashed = FALSE
    /\ m_lastData = <<>>
    /\ RawT = RawTFill
    /\ RawN = RawNFill
    /\ RawTPs = "IDLE"
    /\ RawNPs = "IDLE"
    /\ ParametersN = [n \in AllParameters |-> <<>>]
    /\ critical = {}
    /\ last = NoLast

driverVars == <<address, inited, connected, crashed, m_lastData, RawT, RawN,
                RawTPs, RawNPs, ParametersN, critical, last>>

----------------------------------------------------------------------------
(* The methods of CloudwatcherSolo, as functions of the object's members.   *)
(* A method takes the members s and the outcomes of what it calls outside:  *)
(* f, the curl transfer, and g, the read through a null m_lastData.         *)

\* The members at the start of a handler, with an empty record of the call
Members ==
    [addr |-> address, m |-> m_lastData, RawT |-> RawT, RawN |-> RawN, RawTPs |-> RawTPs,
     RawNPs |-> RawNPs, P |-> ParametersN, crit |-> critical, crashed |-> FALSE,
     ok |-> TRUE, ips |-> "IDLE", fetches |-> <<>>, nullRead |-> FALSE,
     unregistered |-> {}, busy |-> FALSE, raw |-> <<>>]

\* A faulty AddressUnset: only the null pointer is tested
AddressNull(a) == a = <<>>

\* addressTP[0].getText() == nullptr || strcmp(addressTP[0].getText(), "") == 0
AddressUnset(a) == a = <<>> \/ a = <<"">>

\* curl_easy_perform returned CURLE_OK: never for an empty URL
Fetched(s, f) == f.ok /\ s.addr # <<"">>

readRaw(s, f) ==
    IF s.addr = <<>> THEN [s EXCEPT !.ok = FALSE]
    ELSE IF ~Fetched(s, f) THEN
        [s EXCEPT !.ok = FALSE,
                  !.fetches = Append(@, [ok |-> FALSE, decoded |-> FALSE])]
    ELSE
        LET r == Decoded[f.body]
        IN [s EXCEPT !.m = IF r.obj # <<>> THEN r.obj ELSE @,
                     !.ok = TRUE,
                     !.fetches = Append(@, [ok |-> TRUE, decoded |-> r.obj # <<>>])]

\* *m_lastData
Deref(s, g) == IF s.m # <<>> THEN s.m[1] ELSE g.d

BoolToDouble(b) == IF b THEN 1 ELSE 0

\* The copy of the members of d into RawT and RawN
Publish(s, d) ==
    [s EXCEPT !.RawT = [date |-> d.date, cwinfo |-> d.cwinfo],
              !.RawTPs = "OK",
              !.RawN = [clouds |-> d.clouds, temp |-> d.temp, wind |-> d.wind,
                        gust |-> d.gust, rain |-> d.rain,
                        lightmpsas |-> d.lightmpsas, sw |-> d.sw,
                        safe |-> BoolToDouble(d.safe), hum |-> d.hum,
                        dewp |-> d.dewp, rawir |-> d.rawir,
                        abspress |-> d.abspress, relpress |-> d.relpress],
              !.RawNPs = "OK",
              !.ok = TRUE]

\* A faulty updateRawRest: a failed read sets only RawTP.s to ALERT
updateRawRestTextAlert(s, g) ==
    IF ~s.ok THEN [s EXCEPT !.RawTPs = "ALERT"]
    ELSE IF s.m = <<>> /\ g.crash THEN
        [s EXCEPT !.nullRead = TRUE, !.crashed = TRUE, !.ok = FALSE]
    ELSE IF s.m = <<>> THEN Publish([s EXCEPT !.nullRead = TRUE], Deref(s, g))
    ELSE Publish(s, Deref(s, g))

\* The part of updateRaw after readRaw, s being the members readRaw leaves
updateRawRest(s, g) ==
    IF ~s.ok THEN [s EXCEPT !.RawTPs = "ALERT", !.RawNPs = "ALERT"]
    ELSE IF s.m = <<>> /\ g.crash THEN
        [s EXCEPT !.nullRead = TRUE, !.crashed = TRUE, !.ok = FALSE]
    ELSE IF s.m = <<>> THEN Publish([s EXCEPT !.nullRead = TRUE], Deref(s, g))
    ELSE Publish(s, Deref(s, g))

\* The record of a call of updateRaw that returns: s the members after its
\* first four statements and readRaw, t the members at its return
Returned(s, t) ==
    IF t.crashed THEN t
    ELSE [t EXCEPT !.raw = Append(@, [busy |-> s.RawTPs = "BUSY" /\ s.RawNPs = "BUSY",
                                      ret |-> t.ok, tp |-> t.RawTPs, np |-> t.RawNPs])]

updateRaw(s0, f, g) ==
    Only({Only({Returned(s, t) : t \in {updateRawRest(s, g)}}) :
          s \in {readRaw([s0 EXCEPT !.RawTPs = "BUSY", !.RawNPs = "BUSY", !.busy = TRUE], f)}})

\* INDI::Weather::setParameterValue: sets the value of the parameter of that
\* name if there is one
setParameterValue(s, name, value) ==
    IF s.P[name] # <<>> THEN [s EXCEPT !.P[name] = <<value>>]
    ELSE [s EXCEPT !.unregistered = @ \cup {name}]

\* INDI::Weather::addParameter: a new parameter, value 0
addParameter(s, name) == [s EXCEPT !.P[name] = <<0>>]

setCriticalParameter(s, name) == [s EXCEPT !.crit = @ \cup {name}]

\* The parameters in the order of the source, each with the member it shows
\* and the condition the source puts on it
ParameterList(d) ==
    << <<"WEATHER_SAFE", BoolToDouble(d.safe), TRUE>>,
       <<"WEATHER_SWITCH", d.sw, TRUE>>,
       <<"WEATHER_SKYTEMP", d.clouds, TRUE>>,
       <<"WEATHER_TEMP", d.temp, TRUE>>,
       <<"WEATHER_SKY_QUALITY", d.lightmpsas, TRUE>>,
       <<"WEATHER_WIND", d.wind, FloatNe(d.wind, NAN)>>,
       <<"WEATHER_GUST", d.gust, FloatNe(d.gust, NAN)>>,
       <<"WEATHER_RAIN", d.rain, FloatNe(d.rain, NAN)>>,
       <<"WEATHER_HUMIDITY", d.hum, FloatNe(d.hum, NAN)>>,
       <<"WEATHER_DEWPOINT", d.dewp, FloatNe(d.dewp, NAN)>>,
       <<"WEATHER_ABSPRESS", d.abspress, FloatNe(d.abspress, NAN)>>,
       <<"WEATHER_RELPRESS", d.relpress, FloatNe(d.relpress, NAN)>> >>

\* A faulty CriticalList: the rain parameter is left out
CriticalListNoRain(d) ==
    << <<"WEATHER_SAFE", TRUE>>,
       <<"WEATHER_SKYTEMP", TRUE>>,
       <<"WEATHER_WIND", FloatNe(d.wind, NAN)>>,
       <<"WEATHER_GUST", FloatNe(d.gust, NAN)>> >>

\* The three parameters made critical when their member is not NAN
CriticalList(d) ==
    << <<"WEATHER_SAFE", TRUE>>,
       <<"WEATHER_SKYTEMP", TRUE>>,
       <<"WEATHER_WIND", FloatNe(d.wind, NAN)>>,
       <<"WEATHER_GUST", FloatNe(d.gust, NAN)>>,
       <<"WEATHER_RAIN", FloatNe(d.rain, NAN)>> >>

\* The entries of a list that name n and whose condition holds
Hits(list, n) == {i \in 1..Len(list) : list[i][1] = n /\ list[i][Len(list[i])]}

\* The setParameterValue calls of updateWeather, one per entry whose
\* condition holds; the names of the list are distinct
SetValues(s, list) ==
    [s EXCEPT
        !.P = [n \in AllParameters |->
                IF Hits(list, n) # {} /\ s.P[n] # <<>>
                THEN setParameterValue(s, n, list[Only(Hits(list, n))][2]).P[n]
                ELSE s.P[n]],
        !.unregistered =
            @ \cup {n \in AllParameters :
                        Hits(list, n) # {} /\ n \in setParameterValue(s, n, 0).unregistered}]

\* The addParameter calls of initProperties
AddParameters(s, list) ==
    [s EXCEPT
        !.P = [n \in AllParameters |->
                IF Hits(list, n) # {} THEN addParameter(s, n).P[n] ELSE s.P[n]]]

\* The setCriticalParameter calls of initProperties
SetCritical(s, list) ==
    [s EXCEPT
        !.crit = UNION ({s.crit} \cup {setCriticalParameter(s, n).crit :
                                        n \in {m \in AllParameters : Hits(list, m) # {}}})]

\* The part of updateWeather after updateRaw, s being the members it leaves
updateWeatherRest(s, g) ==
    IF s.crashed THEN s
    ELSE IF ~s.ok THEN [s EXCEPT !.ips = "ALERT"]
    ELSE [SetValues(s, ParameterList(Deref(s, g))) EXCEPT !.ips = "OK"]

updateWeather(s0, f, g) ==
    Only({updateWeatherRest(s, g) : s \in {updateRaw(s0, f, g)}})

\* The part of initProperties after updateRaw
initPropertiesRest(s) ==
    IF s.crashed THEN s
    ELSE IF s.m = <<>> THEN [s EXCEPT !.ok = FALSE]
    ELSE Only({[SetCritical(t, CriticalList(s.m[1])) EXCEPT !.ok = TRUE] :
               t \in {AddParameters(s, ParameterList(s.m[1]))}})

\* a is the address IUGetConfigText finds in the configuration file
initPropertiesBody(s0, a, f, g) ==
    Only({initPropertiesRest(s) :
          s \in {updateRaw([s0 EXCEPT !.addr = <<a>>, !.RawT = RawTFill,
                                      !.RawN = RawNFill, !.RawTPs = "IDLE",
                                      !.RawNPs = "IDLE"], f, g)}})

\* if ( ! updateWeather() ) return false; return true;
ConnectEnd(s) ==
    IF s.crashed THEN s
    ELSE IF IPSValue(s.ips) = 0 THEN [s EXCEPT !.ok = FALSE]
    ELSE [s EXCEPT !.ok = TRUE]

\* The part of Connect after its updateRaw, s being the members it leaves
ConnectRest(s, f2, g) ==
    IF s.crashed THEN s
    ELSE IF ~s.ok THEN s
    ELSE Only({ConnectEnd(t) : t \in {updateWeather(s, f2, g)}})

ConnectBody(s0, f1, f2, g) ==
    IF AddressUnset(s0.addr) THEN [s0 EXCEPT !.ok = FALSE]
    ELSE Only({ConnectRest(s, f2, g) : s \in {updateRaw(s0, f1, g)}})

----------------------------------------------------------------------------
(* The handlers the framework calls.  The outcome of a call outside is      *)
(* drawn only where the handler can get to that call.                       *)

\* The outcomes of a read through m_lastData that a handler starting with
\* the members s can meet
NullReads(s) == IF s.m = <<>> THEN NullReadOutcomes ELSE {[crash |-> TRUE, d |-> DefaultData]}

\* The outcomes of the second transfer of Connect, which the first can prevent
SecondFetches(s, f1, g) ==
    IF AddressUnset(s.addr) \/ ~updateRaw(s, f1, g).ok THEN {f1} ELSE FetchOutcomes

BoolText(b) == IF b THEN "true" ELSE "false"

\* The members after a handler, and the record of the call
Store(s, op, ret) ==
    /\ address' = s.addr
    /\ m_lastData' = s.m
    /\ RawT' = s.RawT
    /\ RawN' = s.RawN
    /\ RawTPs' = s.RawTPs
    /\ RawNPs' = s.RawNPs
    /\ ParametersN' = s.P
    /\ critical' = s.crit
    /\ crashed' = s.crashed
    /\ last' = [op |-> op, ret |-> IF s.crashed THEN "none" ELSE ret,
                fetches |-> s.fetches, nullRead |-> s.nullRead,
                unregistered |-> s.unregistered, busy |-> s.busy, raw |-> s.raw]

\* The address the configuration file holds at startup
ConfigAddresses == {"", "url"}

initProperties ==
    /\ ~inited /\ ~crashed
    /\ \E a \in ConfigAddresses, f \in FetchOutcomes, g \in NullReads(Members) :
       \E s \in {initPropertiesBody(Members, a, f, g)} :
        Store(s, "initProperties", BoolText(s.ok))
    /\ inited' = TRUE
    /\ UNCHANGED <<data, result, connected>>

\* The framework calls Connect when the client asks to connect a device
\* that is not connected, and marks it connected when Connect returns true
Connect ==
    /\ inited /\ ~connected /\ ~crashed
    /\ \E f1 \in FetchOutcomes, g \in NullReads(Members) :
       \E f2 \in SecondFetches(Members, f1, g) :
       \E s \in {ConnectBody(Members, f1, f2, g)} :
        /\ Store(s, "Connect", BoolText(s.ok))
        /\ connected' = (s.ok /\ ~s.crashed)
    /\ UNCHANGED <<data, result, inited>>

Disconnect ==
    /\ connected /\ ~crashed
    /\ connected' = FALSE
    /\ last' = [NoLast EXCEPT !.op = "Disconnect", !.ret = "true"]
    /\ UNCHANGED <<data, result, address, inited, crashed, m_lastData, RawT, RawN,
                   RawTPs, RawNPs, ParametersN, critical>>

\* ISNewText for CWS_ADDRESS
ISNewText ==
    /\ inited /\ ~crashed
    /\ \E a \in ConfigAddresses : address' = <<a>>
    /\ last' = [NoLast EXCEPT !.op = "ISNewText", !.ret = "true"]
    /\ UNCHANGED <<data, result, inited, connected, crashed, m_lastData, RawT, RawN,
                   RawTPs, RawNPs, ParametersN, critical>>

\* The poll tick of the framework's timer, which runs while connected
Tick ==
    /\ connected /\ ~crashed
    /\ \E f \in FetchOutcomes, g \in NullReads(Members) :
       \E s \in {updateWeather(Members, f, g)} :
        Store(s, "updateWeather", s.ips)
    /\ UNCHANGED <<data, result, inited, connected>>

Init ==
    /\ data = <<>>
    /\ result = NoResult
    /\ DriverInit

Next ==
    \/ initProperties
    \/ Connect
    \/ Disconnect
    \/ ISNewText
    \/ Tick

Spec == Init /\ [][Next]_vars

----------------------------------------------------------------------------
(* Decoder runs: one construction of CloudwatcherData from a payload *)

Construct ==
    /\ ~result.done
    /\ \E c \in EnumCasts : result' = CloudwatcherData(data, c)
    /\ UNCHANGED <<data, driverVars>>

InitParse ==
    /\ data \in Payloads
    /\ result = NoResult
    /\ DriverInit

NextParse == Construct

SpecParse == InitParse /\ [][NextParse]_vars

----------------------------------------------------------------------------
(* Vocabulary of the claims *)

\* The conversion the decoder applies to the value of a key
ScanOf(k, val) ==
    IF k \in StringKeys THEN ScanStr(val)
    ELSE IF k \in FloatKeys THEN ScanLf(val)
    ELSE IF k \in IntKeys THEN ScanD(val)
    ELSE <<>>

\* Line i of the payload is a successfully parsed line of key k
ParsedLine(payload, i, k) == payload[i].key = k /\ ScanOf(k, payload[i].val) # <<>>

NoParsedLine(payload, k) == \A i \in 1..Len(payload) : ~ParsedLine(payload, i, k)

\* The name the decoder's error gives a required key
ErrName == ("dataGMTTime" :> "date") @@ ("cwinfo" :> "cwinfo") @@ ("clouds" :> "clouds")
           @@ ("temp" :> "temp") @@ ("lightmpsas" :> "lightmpsas")

\* The member of a snapshot that a key fills
FieldOf(d, k) ==
    CASE k = "dataGMTTime" -> d.date
      [] k = "cwinfo" -> d.cwinfo
      [] k = "clouds" -> d.clouds
      [] k = "temp" -> d.temp
      [] k = "wind" -> d.wind
      [] k = "gust" -> d.gust
      [] k = "rain" -> d.rain
      [] k = "lightmpsas" -> d.lightmpsas
      [] k = "switch" -> d.sw
      [] k = "safe" -> d.safe
      [] k = "hum" -> d.hum
      [] k = "dewp" -> d.dewp
      [] k = "rawir" -> d.rawir
      [] k = "abspress" -> d.abspress
      [] k = "relpress" -> d.relpress

\* The grammar of the wire format: the texts a key may carry and what each
\* denotes (doubles in tenths)
FloatDenotes == ("0" :> 0) @@ ("1" :> 10) @@ ("2" :> 20) @@ ("-1" :> -10) @@ ("2.5" :> 25)

SwitchDenotes == ("0" :> CLOSED) @@ ("1" :> OPEN)

SafeDenotes == ("0" :> FALSE) @@ ("1" :> TRUE)

InGrammar(k, val) ==
    IF k \in StringKeys THEN val # ""
    ELSE IF k \in FloatKeys THEN val \in DOMAIN FloatDenotes
    ELSE IF k \in IntKeys THEN val \in DOMAIN SwitchDenotes
    ELSE FALSE

Denotes(k, val) ==
    IF k \in StringKeys THEN val
    ELSE IF k \in FloatKeys THEN FloatDenotes[val]
    ELSE IF k = "switch" THEN SwitchDenotes[val]
    ELSE SafeDenotes[val]

KeysOf(payload) == {payload[i].key : i \in 1..Len(payload)}

\* Each line carries a known key and a value of its grammar, one line per key
WellFormed(payload) ==
    /\ \A i \in 1..Len(payload) :
        payload[i].key \in KnownKeys /\ InGrammar(payload[i].key, payload[i].val)
    /\ \A i, j \in 1..Len(payload) : payload[i].key = payload[j].key => i = j

\* The member a weather parameter shows
MemberOf(d, p) ==
    CASE p = "WEATHER_WIND" -> d.wind
      [] p = "WEATHER_GUST" -> d.gust
      [] p = "WEATHER_RAIN" -> d.rain
      [] p = "WEATHER_HUMIDITY" -> d.hum
      [] p = "WEATHER_DEWPOINT" -> d.dewp
      [] p = "WEATHER_ABSPRESS" -> d.abspress
      [] p = "WEATHER_RELPRESS" -> d.relpress

Registered(p) == ParametersN[p] # <<>>

\* Some transfer of the last handler failed, or its body failed to decode
SomeFailure(l) == \E i \in 1..Len(l.fetches) : ~l.fetches[i].ok \/ ~l.fetches[i].decoded

----------------------------------------------------------------------------
(* Claims *)

\* C1: a payload in which a required field has no successfully parsed line
\* makes the constructor throw, and the error names a field that is missing
\* (the one missing field, when there is one).
C1_MissingRequiredThrows ==
    result.done =>
        \A k \in RequiredSet :
            NoParsedLine(data, k) =>
                /\ result.obj = <<>>
                /\ result.err \in {ErrName[j] : j \in {r \in RequiredSet : NoParsedLine(data, r)}}

\* C2: a poll tick returns ALERT exactly when its fetch failed or the fetched
\* body failed to decode, and OK exactly when both succeeded.
C2_TickAlertIffFailure ==
    (last.op = "updateWeather" /\ last.ret # "none") =>
        /\ last.ret = "ALERT" <=> SomeFailure(last)
        /\ last.ret = "OK" <=> ~SomeFailure(last)

\* C3: no handler reads through m_lastData while it is null.
C3_NeverReadWhileAbsent == ~last.nullRead

\* C4: when initProperties has returned true, the registered optional
\* parameters are exactly those whose member is not NAN in the seed snapshot.
C4_RegisteredIffPresent ==
    (last.op = "initProperties" /\ last.ret = "true") =>
        \A p \in Optional : Registered(p) <=> MemberOf(m_lastData[1], p) # NAN

\* C5: the five always-on parameters are registered whenever the device is
\* connected, and no handler sets the value of an always-on parameter that
\* is not registered.
C5_AlwaysOnRegistered ==
    /\ connected => \A p \in AlwaysOn : Registered(p)
    /\ last.unregistered \cap AlwaysOn = {}

\* C6: a Connect with an address configured returns true only if every fetch
\* and every decode it performed succeeded.
C6_ConnectTrueOnlyIfAllSucceeded ==
    (last.op = "Connect" /\ last.ret = "true") => ~SomeFailure(last)

\* C7: with no address configured (null or empty text) a Connect returns
\* false, performs no fetch, and changes neither the held snapshot nor any
\* published raw or parameter value or state.
C7_UnconfiguredConnectFails ==
    [][(last'.op = "Connect" /\ address \in {<<>>, <<"">>}) =>
        /\ last'.ret = "false"
        /\ last'.fetches = <<>>
        /\ ~connected'
        /\ UNCHANGED <<m_lastData, RawT, RawN, RawTPs, RawNPs, ParametersN>>]_vars

C7_Witness ==
    /\ last.op = "Connect"
    /\ address = <<"">>
    /\ last.ret = "false"
    /\ m_lastData # <<>>
    /\ RawTPs = "OK"

\* C8: a poll tick in which the fetch or the decode fails leaves the held
\* snapshot, the raw values and the parameter values as they were, and
\* leaves the device connected.
C8_FailedTickKeepsValues ==
    [][(last'.op = "updateWeather" /\ last'.ret # "none" /\ SomeFailure(last')) =>
        /\ UNCHANGED <<m_lastData, RawT, RawN, ParametersN>>
        /\ connected']_vars

\* C9: the held snapshot is absent or fully valid: date and cwinfo are not
\* empty and clouds, temp and lightmpsas are not NAN.
C9_HeldSnapshotValid ==
    m_lastData # <<>> =>
        LET d == m_lastData[1]
        IN /\ d.date # "" /\ d.cwinfo # ""
           /\ d.clouds # NAN /\ d.temp # NAN /\ d.lightmpsas # NAN

CriticalOfRegistered ==
    {"WEATHER_SAFE", "WEATHER_SKYTEMP"}
        \cup {p \in {"WEATHER_WIND", "WEATHER_GUST", "WEATHER_RAIN"} : Registered(p)}

\* C11: when initProperties has returned true the critical set is exactly
\* WEATHER_SAFE and WEATHER_SKYTEMP plus those of wind, gust and rain that
\* are registered, and it stays so; no parameter that is not registered is
\* ever critical, and humidity, dew point, the pressures, switch, temperature
\* and sky brightness are never critical.
C11_CriticalSet ==
    /\ (last.op = "initProperties" /\ last.ret = "true") => critical = CriticalOfRegistered
    /\ critical # {} => critical = CriticalOfRegistered
    /\ \A p \in critical : Registered(p)
    /\ critical \cap {"WEATHER_HUMIDITY", "WEATHER_DEWPOINT", "WEATHER_ABSPRESS",
                      "WEATHER_RELPRESS", "WEATHER_SWITCH", "WEATHER_TEMP",
                      "WEATHER_SKY_QUALITY"} = {}

C11_Witness ==
    /\ last.op = "initProperties"
    /\ last.ret = "true"
    /\ Registered("WEATHER_RAIN")
    /\ Registered("WEATHER_HUMIDITY")
    /\ critical = {"WEATHER_SAFE", "WEATHER_SKYTEMP", "WEATHER_WIND", "WEATHER_GUST",
                   "WEATHER_RAIN"}

\* The key whose pattern line i of the payload matches, if any
MatchedKeys(payload, i) == {k \in KnownKeys : ParsedLine(payload, i, k)}

\* The subsequence of s at the positions I
Restrict(s, I) ==
    [n \in 1..Cardinality(I) |-> s[CHOOSE i \in I : Cardinality({j \in I : j <= i}) = n]]

\* The positions of the payload but those of a parsed line that a later
\* parsed line of the same key follows
LastOccurrences(payload) ==
    {i \in 1..Len(payload) :
        \A k \in MatchedKeys(payload, i) :
            \A j \in (i + 1)..Len(payload) : ~ParsedLine(payload, j, k)}

\* The position of the last parsed line of key k
LastParsed(payload, k) ==
    CHOOSE i \in 1..Len(payload) :
        /\ ParsedLine(payload, i, k)
        /\ \A j \in (i + 1)..Len(payload) : ~ParsedLine(payload, j, k)

\* What a parsed line of key k carrying val may leave in the member of k
StoredBy(k, val) ==
    IF k = "switch" THEN {StaticCastSwitch(ScanOf(k, val)[1], c) : c \in EnumCasts}
    ELSE IF k = "safe" THEN {ScanOf(k, val)[1] # 0}
    ELSE {ScanOf(k, val)[1]}

\* C12: when a key has several lines, its member holds the value of the last
\* of them that parsed, for each of the 15 keys; the earlier ones have no
\* effect (the outcome, error and warnings included, is that of the payload
\* without them), so duplicates never cause an error.
C12_LastLineWins ==
    result.done =>
        /\ result \in {CloudwatcherData(Restrict(data, LastOccurrences(data)), c) :
                            c \in EnumCasts}
        /\ result.obj # <<>> =>
            \A k \in KnownKeys :
                IF NoParsedLine(data, k)
                THEN FieldOf(result.obj[1], k) = FieldOf(DefaultData, k)
                ELSE FieldOf(result.obj[1], k) \in StoredBy(k, data[LastParsed(data, k)].val)

C12_Witness ==
    /\ result.obj # <<>>
    /\ \E i \in 1..Len(data) :
        /\ i + 1 <= Len(data)
        /\ data[i] = Line("clouds", "1")
        /\ data[i + 1] = Line("clouds", "2.5")
        /\ \E j \in (i + 2)..Len(data) : data[j] = Line("clouds", "-1")
    /\ result.obj[1].clouds = -10

\* The positions of the lines that match none of the 15 patterns: the key is
\* unknown, or the value fails the conversion of its key
Unmatched(payload) == {i \in 1..Len(payload) : MatchedKeys(payload, i) = {}}

\* C13: lines that match none of the 15 patterns change neither whether the
\* construction succeeds nor any member nor the error: the outcome is that
\* of the payload without them, but for one warning per such line.
C13_UnmatchedLinesIgnored ==
    result.done =>
        \E r \in {CloudwatcherData(Restrict(data, (1..Len(data)) \ Unmatched(data)), c) :
                    c \in EnumCasts} :
            /\ result.obj = r.obj
            /\ result.err = r.err
            /\ r.warns = 0
            /\ result.warns = Cardinality(Unmatched(data))

C13_Witness ==
    /\ result.obj # <<>>
    /\ Len(data) = Len(RequiredKeys) + 2
    /\ data[3] = Line("clouds", "-1")
    /\ data[4] = Line("clouds", "x")
    /\ data[5] = Line("clouds", "x")
    /\ result.obj[1].clouds = -10
    /\ result.warns = 2

\* C14: a payload with no successfully parsed dataGMTTime line (the empty
\* payload included) makes the constructor throw, and the error names the
\* date, whatever else the payload holds or lacks.
C14_MissingDateNamed ==
    (result.done /\ NoParsedLine(data, "dataGMTTime")) =>
        /\ result.obj = <<>>
        /\ result.err = "date"

C14_Witness ==
    /\ result.done
    /\ \E i \in 1..Len(data) : data[i] = Line("dataGMTTime", "")
    /\ NoParsedLine(data, "dataGMTTime")
    /\ NoParsedLine(data, "cwinfo")
    /\ NoParsedLine(data, "clouds")
    /\ result.obj = <<>>
    /\ result.err = "date"

\* C15: a Connect with an address configured performs exactly one fetch and
\* decode: it never issues a second transfer.
C15_ConnectFetchesOnce ==
    (last.op = "Connect" /\ last.ret # "none" /\ address \notin {<<>>, <<"">>}) =>
        Len(last.fetches) = 1

\* C16: every call of updateRaw first sets RawTP.s and RawNP.s to BUSY and,
\* when it returns, has set both to the same state: ALERT exactly when it
\* returns false, OK exactly when it returns true.  Between the handlers of
\* the running driver the two states are equal and never BUSY.
C16_RawStatesAgree ==
    /\ \A i \in 1..Len(last.raw) :
        /\ last.raw[i].busy
        /\ last.raw[i].tp = last.raw[i].np
        /\ last.raw[i].tp = "ALERT" <=> ~last.raw[i].ret
        /\ last.raw[i].tp = "OK" <=> last.raw[i].ret
    /\ ~crashed => (RawTPs = RawNPs /\ RawTPs # "BUSY")

C16_Witness ==
    /\ last.op = "Connect"
    /\ Len(last.raw) = 2
    /\ last.raw[1].ret
    /\ last.raw[1].tp = "OK"
    /\ ~last.raw[2].ret
    /\ RawTPs = "ALERT"
    /\ RawNPs = "ALERT"

\* C17: after a successful parse the switch is CLOSED or OPEN whatever
\* integer the switch line carries, so the raw switch value updateRaw
\* publishes from it lies in 0..1; and safe is false exactly when the last
\* parsed safe line carries 0 or there is none.
C17_SwitchAndSafe ==
    result.obj # <<>> =>
        /\ result.obj[1].sw \in {CLOSED, OPEN}
        /\ Publish(Members, result.obj[1]).RawN.sw \in 0..1
        /\ ~result.obj[1].safe <=>
              \/ NoParsedLine(data, "safe")
              \/ ScanD(data[LastParsed(data, "safe")].val)[1] = 0

====
